---- MODULE Spec2Model ----
(***************************************************************************)
(* Epic Events CRM: the session file (auth.py), the permission predicates  *)
(* of the models, Contract.record_payment and the click commands over the  *)
(* users / clients / contracts / events tables.                            *)
(*                                                                         *)
(* Tables are functions from primary keys to rows.  Free-text columns that *)
(* carry no constraint and feed no decision (names, phone, company,        *)
(* location, notes, description) are not tracked.  Amounts are integers    *)
(* (an amount is a whole number of currency units), instants are minutes.  *)
(***************************************************************************)
EXTENDS Integers, Sequences, FiniteSets, TLC

VARIABLES
    users,        \* users table: id -> [username, role, password_hash]
    clients,      \* clients table: id -> [email, commercial_id]
    contracts,    \* contracts table: id -> [client_id, commercial_id, total_amount, remaining_amount, is_signed, is_paid]
    events,       \* events table: id -> [contract_id, client_id, support_id, start_date, end_date, attendees]
    sessionFile,  \* content of ~/.epic_events_session, or NoFile
    now,          \* datetime.now(), in minutes
    last,         \* the last call and what it returned / echoed
    probe,        \* inputs of the permission predicates under evaluation
    verdict,      \* their results
    procs         \* concurrent calls into auth.py: process -> [op, pc, locals]

vars == <<users, clients, contracts, events, sessionFile, now, last, probe, verdict, procs>>

store == <<users, clients, contracts, events>>

-----------------------------------------------------------------------------
(* Bounds of the model *)

MaxClients == 2
MaxContracts == 2
MaxEvents == 2
MaxAmount == 4
MaxStart == 1
MaxUsers == 5

(* Program constants *)

SESSION_DURATION == 12

\* A nullable foreign key holding NULL / Python's None (primary keys start at 1).
None == 0

ADMIN == "admin"
COMMERCIAL == "commercial"
SUPPORT == "support"
GESTION == "gestion"

\* UserRole.choices(): the roles the user commands accept.
Roles == {ADMIN, COMMERCIAL, SUPPORT, GESTION}

-----------------------------------------------------------------------------
(* Helpers *)

Max(S) == CHOOSE x \in S : \A y \in S : y <= x

\* INTEGER PRIMARY KEY: a new row gets the largest key in the table plus one.
NextId(table) == IF DOMAIN table = {} THEN 1 ELSE Max(DOMAIN table) + 1

Insert(table, id, row) == [k \in DOMAIN table \cup {id} |-> IF k = id THEN row ELSE table[k]]

Remove(table, ids) == [k \in DOMAIN table \ ids |-> table[k]]

\* An optional command-line option: << >> when not given, <<v>> when given.
Opt(S) == {<< >>} \cup {<<v>> : v \in S}

Given(o) == Len(o) > 0

Value(o) == o[1]

\* bool(o) of an optional string: None and "" are falsy.
Truthy(o) == Given(o) /\ Value(o) # ""

\* A call and its outcome: the value returned (auth.py) or what the command reported:
\* "ok" (the success message), "error" (an error message) or "ClickException".
Call(op, id, out) == [op |-> op, id |-> id, out |-> out]

\* Amounts are Python floats (Column(Float), click type=float): the numbers,
\* here integers, and nan, which every comparison answers False to and every
\* subtraction yields.  The engine (SQLite, database.py) binds nan as NULL, so
\* a commit that writes nan to a NOT NULL column raises IntegrityError.
NaN == -1000

IsNaN(x) == x = NaN

\* A variant that compares strictly.
FloatLeStrict(a, b) == ~IsNaN(a) /\ ~IsNaN(b) /\ a < b

\* a <= b
FloatLe(a, b) == ~IsNaN(a) /\ ~IsNaN(b) /\ a <= b

\* a > b
FloatGt(a, b) == ~IsNaN(a) /\ ~IsNaN(b) /\ a > b

\* a - b
FloatSub(a, b) == IF IsNaN(a) \/ IsNaN(b) THEN NaN ELSE a - b


-----------------------------------------------------------------------------
(* The session file: auth.py *)

NoFile == [kind |-> "absent"]

\* timedelta(hours=h), in minutes.
Hours(h) == h * 60

\* generate_password_hash / check_password_hash: a verifier derived from the secret.
Hash(password) == <<"pbkdf2:sha256", password>>

User(username, password, role) ==
    [username |-> username, email |-> username \o "@epic.com", role |-> role,
     password_hash |-> Hash(password)]

\* password_hash of a user created without a password.
NoHash == << >>

\* A variant that accepts any secret for a user without a verifier.
CheckPasswordNoHashPasses(u, password) ==
    u.password_hash = NoHash \/ u.password_hash = Hash(password)

\* User.check_password
CheckPassword(u, password) ==
    IF u.password_hash = NoHash THEN FALSE ELSE u.password_hash = Hash(password)

\* session.query(User).filter_by(username=username).first(): a set of at most one id.
UserByName(username) ==
    LET found == {i \in DOMAIN users : users[i].username = username}
    IN  IF found = {} THEN {} ELSE {CHOOSE i \in found : \A j \in found : i <= j}

\* A variant that stamps the record with the login instant itself.
SessionDataNoDuration(i, t) ==
    [kind |-> "object", user_id |-> i, username |-> users[i].username,
     role |-> users[i].role, expires_at |-> t]

\* The session_data dictionary login writes for user i at instant t.
SessionData(i, t) ==
    [kind |-> "object", user_id |-> i, username |-> users[i].username,
     role |-> users[i].role, expires_at |-> t + Hours(SESSION_DURATION)]

\* json.load and datetime.fromisoformat succeed on the file's content.
Readable(f) == f.kind = "object"

\* A variant that already expires the session at the instant expires_at.
ExpiredAtDeadline(f, t) == t >= f.expires_at

\* datetime.now() > expires_at
Expired(f, t) == t > f.expires_at

\* The exception the try block of get_current_user raises on content f at
\* instant t, "none" when it raises none.  A file is absent, a session object,
\* or one of: text json.load rejects; JSON that is not an object (subscripting
\* it with "expires_at" is a TypeError); an object without "expires_at"; an
\* object whose "expires_at" fromisoformat rejects; an object without
\* "user_id", which is only missed when the session has not expired.
Raised(f, t) ==
    CASE f.kind = "not_json" -> "JSONDecodeError"
      [] f.kind = "not_object" -> "TypeError"
      [] f.kind = "no_expires_at" -> "KeyError"
      [] f.kind = "bad_timestamp" -> "ValueError"
      [] f.kind = "no_user_id" -> IF Expired(f, t) THEN "none" ELSE "KeyError"
      [] OTHER -> "none"

\* except (json.JSONDecodeError, KeyError, ValueError)
Caught(e) == e \in {"JSONDecodeError", "KeyError", "ValueError"}

\* What get_current_user returns in the current state: a user id, or None.
CurrentUser ==
    IF sessionFile = NoFile THEN None
    ELSE IF ~Readable(sessionFile) THEN None
    ELSE IF Expired(sessionFile, now) THEN None
    ELSE IF sessionFile.user_id \in DOMAIN users THEN sessionFile.user_id
    ELSE None

\* login(username, password)
Login(username, password) ==
    LET found == UserByName(username)
        ok == found # {} /\ \A i \in found : CheckPassword(users[i], password)
        Logged(id, out) == [op |-> "login", id |-> id, out |-> out,
                            username |-> username, password |-> password,
                            replaced |-> sessionFile.kind]
    IN  /\ IF ok
           THEN \E i \in found :
                   /\ sessionFile' = SessionData(i, now)
                   /\ last' = Logged(i, "User")
           ELSE /\ sessionFile' = sessionFile
                /\ last' = Logged(None, "AuthenticationError")
        /\ UNCHANGED <<store, now, probe, verdict, procs>>

\* A variant that reports True whether or not a file existed.
LogoutAlwaysTrue ==
    /\ sessionFile' = NoFile
    /\ last' = Call("logout", None, "True")
    /\ UNCHANGED <<store, now, probe, verdict, procs>>

\* logout()
Logout ==
    /\ IF sessionFile # NoFile
       THEN /\ sessionFile' = NoFile
            /\ last' = Call("logout", None, "True")
       ELSE /\ sessionFile' = sessionFile
            /\ last' = Call("logout", None, "False")
    /\ UNCHANGED <<store, now, probe, verdict, procs>>

\* What get_current_user returned, and whether it called logout().
Current(id, out, logged_out) ==
    [op |-> "get_current_user", id |-> id, out |-> out, logged_out |-> logged_out]

\* What get_current_user does on content f at instant t: the user id and
\* value it returns (out is the exception's name when one leaves it), whether
\* it called logout(), and the content it leaves.
Lookup(f, t) ==
    LET Result(id, out, logged_out, file) ==
            [id |-> id, out |-> out, logged_out |-> logged_out, file |-> file]
    IN  IF f = NoFile
        THEN Result(None, "None", FALSE, f)
        ELSE IF Raised(f, t) # "none"
        THEN IF Caught(Raised(f, t))
             THEN Result(None, "None", TRUE, NoFile)     \* except (...): logout()
             ELSE Result(None, Raised(f, t), FALSE, f)   \* the exception leaves the function
        ELSE IF Expired(f, t)
        THEN Result(None, "None", TRUE, NoFile)          \* logout()
        ELSE IF f.user_id \in DOMAIN users
        THEN Result(f.user_id, "User", FALSE, f)
        ELSE Result(None, "None", FALSE, f)

\* get_current_user()
GetCurrentUser ==
    LET r == Lookup(sessionFile, now)
    IN  /\ sessionFile' = r.file
        /\ last' = Current(r.id, r.out, r.logged_out)
        /\ UNCHANGED <<store, now, probe, verdict, procs>>

\* The instants the clock is observed at: a start and, from it, one minute short
\* of the session duration, the duration exactly, and one minute past it.
Instants ==
    {t + d : t \in 0..MaxStart,
             d \in {0, Hours(SESSION_DURATION) - 1, Hours(SESSION_DURATION),
                    Hours(SESSION_DURATION) + 1}}

\* Time passes.
Tick ==
    /\ \E t \in Instants : t > now /\ now' = t
    /\ last' = Call("tick", None, "None")
    /\ UNCHANGED <<store, sessionFile, probe, verdict, procs>>

-----------------------------------------------------------------------------
(* Client commands: commands/client_commands.py *)

\* A variant in which no address is ever found taken.
ClientsWithEmailNeverTaken(email) == {}

\* The clients holding an address: filter_by(email=email), and the rows the
\* unique constraint on Client.email compares a new value against.
ClientsWithEmail(email) == {c \in DOMAIN clients : clients[c].email = email}

\* A variant that refuses only a commercial_id no user has.
NotCommercialOnlyMissing(commercial_id) == commercial_id \notin DOMAIN users

\* `not commercial or commercial.role != "commercial"`, for session.get(User, commercial_id)
NotCommercial(commercial_id) ==
    \/ commercial_id \notin DOMAIN users
    \/ users[commercial_id].role # "commercial"

\* client create --email --commercial-id
ClientCreate(email, commercial_id) ==
    LET id == NextId(clients)
        Created(new, out) == [op |-> "client_create", id |-> new, out |-> out,
                              email |-> email, commercial_id |-> commercial_id]
    IN  /\ IF NotCommercial(commercial_id)
           THEN /\ clients' = clients
                /\ last' = Created(None, "error")
           ELSE IF ClientsWithEmail(email) # {}
           THEN /\ clients' = clients
                /\ last' = Created(None, "error")
           ELSE /\ id <= MaxClients
                /\ clients' = Insert(clients, id, [email |-> email, commercial_id |-> commercial_id])
                /\ last' = Created(id, "ok")
        /\ UNCHANGED <<users, contracts, events, sessionFile, now, probe, verdict, procs>>

\* Contract.events, cascade="all, delete-orphan"
EventsOfContracts(cs) == {e \in DOMAIN events : events[e].contract_id \in cs}

\* Client.contracts, cascade="all, delete-orphan"
ContractsOfClient(c) == {k \in DOMAIN contracts : contracts[k].client_id = c}

\* Client.events, cascade="all, delete-orphan"
EventsOfClient(c) == {e \in DOMAIN events : events[e].client_id = c}

\* A successful delete, with the number of contract and event rows the cascade removed.
Deleted(op, id, ks, es) ==
    [op |-> op, id |-> id, out |-> "ok", removed |-> <<Cardinality(ks), Cardinality(es)>>]

\* A variant whose cascade stops at the client's contracts.
ClientDeleteKeepingEvents(client_id) ==
    /\ IF client_id \notin DOMAIN clients
       THEN /\ UNCHANGED <<clients, contracts, events>>
            /\ last' = Call("client_delete", None, "error")
       ELSE /\ clients' = Remove(clients, {client_id})
            /\ contracts' = Remove(contracts, ContractsOfClient(client_id))
            /\ events' = events
            /\ last' = Deleted("client_delete", client_id, ContractsOfClient(client_id), {})
    /\ UNCHANGED <<users, sessionFile, now, probe, verdict, procs>>

\* A delete whose commit raised: `except Exception: session.rollback()`.
RolledBack(op, id) == [op |-> op, id |-> None, out |-> "rollback", target |-> id]

\* A variant whose failed commit keeps the rows deleted before the failure.
ClientDeleteKeepingPartialFlush(client_id) ==
    /\ IF client_id \notin DOMAIN clients
       THEN /\ UNCHANGED <<clients, contracts, events>>
            /\ last' = Call("client_delete", None, "error")
       ELSE \/ /\ clients' = Remove(clients, {client_id})
               /\ contracts' = Remove(contracts, ContractsOfClient(client_id))
               /\ events' = Remove(events, EventsOfClient(client_id)
                                           \cup EventsOfContracts(ContractsOfClient(client_id)))
               /\ last' = Deleted("client_delete", client_id, ContractsOfClient(client_id),
                                  EventsOfClient(client_id)
                                  \cup EventsOfContracts(ContractsOfClient(client_id)))
            \/ /\ events' = Remove(events, EventsOfClient(client_id)
                                           \cup EventsOfContracts(ContractsOfClient(client_id)))
               /\ UNCHANGED <<clients, contracts>>
               /\ last' = RolledBack("client_delete", client_id)
    /\ UNCHANGED <<users, sessionFile, now, probe, verdict, procs>>

\* client delete --client-id.  session.delete(client) and session.commit()
\* run in one transaction: the commit either applies the delete and its
\* cascade, or raises (the database is locked or cannot be written) and the
\* handler rolls back.
ClientDelete(client_id) ==
    /\ IF client_id \notin DOMAIN clients
       THEN /\ UNCHANGED <<clients, contracts, events>>
            /\ last' = Call("client_delete", None, "error")
       ELSE \/ /\ clients' = Remove(clients, {client_id})
               /\ contracts' = Remove(contracts, ContractsOfClient(client_id))
               /\ events' = Remove(events, EventsOfClient(client_id)
                                           \cup EventsOfContracts(ContractsOfClient(client_id)))
               /\ last' = Deleted("client_delete", client_id, ContractsOfClient(client_id),
                                  EventsOfClient(client_id)
                                  \cup EventsOfContracts(ContractsOfClient(client_id)))
            \/ /\ UNCHANGED <<clients, contracts, events>>
               /\ last' = RolledBack("client_delete", client_id)
    /\ UNCHANGED <<users, sessionFile, now, probe, verdict, procs>>

\* client update --client-id [--email]
ClientUpdate(client_id, email) ==
    /\ IF client_id \notin DOMAIN clients
       THEN /\ clients' = clients
            /\ last' = Call("client_update", None, "error")
       ELSE IF Given(email) /\ ClientsWithEmail(Value(email)) \ {client_id} # {}
       THEN /\ clients' = clients          \* IntegrityError at commit: rollback
            /\ last' = Call("client_update", None, "error")
       ELSE /\ clients' = IF Given(email)
                          THEN [clients EXCEPT ![client_id].email = Value(email)]
                          ELSE clients
            /\ last' = Call("client_update", client_id, "ok")
    /\ UNCHANGED <<users, contracts, events, sessionFile, now, probe, verdict, procs>>

-----------------------------------------------------------------------------
(* Contract commands: commands/contract_commands.py *)

\* A variant that takes the commercial from the first client of the table.
CommercialOfFirstClient(client_id) ==
    clients[CHOOSE c \in DOMAIN clients : \A d \in DOMAIN clients : c <= d].commercial_id

\* commercial_id=client.commercial_id
CommercialOf(client_id) == clients[client_id].commercial_id

\* contract create --client-id --total-amount [--is-signed] [--is-paid]
ContractCreate(client_id, total_amount, is_signed, is_paid) ==
    LET id == NextId(contracts)
        Created(new, out) == [op |-> "contract_create", id |-> new, out |-> out,
                              client_id |-> client_id, total_amount |-> total_amount]
    IN  /\ IF FloatLe(total_amount, 0)
           THEN /\ contracts' = contracts
                /\ last' = Created(None, "error")
           ELSE IF client_id \notin DOMAIN clients
           THEN /\ contracts' = contracts
                /\ last' = Created(None, "ClickException")
           ELSE IF IsNaN(total_amount)
           THEN /\ contracts' = contracts      \* IntegrityError at commit: rollback
                /\ last' = Created(None, "ClickException")
           ELSE /\ id <= MaxContracts
                /\ contracts' = Insert(contracts, id,
                       [client_id |-> client_id,
                        commercial_id |-> CommercialOf(client_id),
                        total_amount |-> total_amount,
                        remaining_amount |-> total_amount,
                        is_signed |-> is_signed,
                        is_paid |-> is_paid])
                /\ last' = Created(id, "ok")
        /\ UNCHANGED <<users, clients, events, sessionFile, now, probe, verdict, procs>>

\* contract delete --contract-id
ContractDelete(contract_id) ==
    /\ IF contract_id \notin DOMAIN contracts
       THEN /\ UNCHANGED <<contracts, events>>
            /\ last' = Call("contract_delete", None, "error")
       ELSE /\ contracts' = Remove(contracts, {contract_id})
            /\ events' = Remove(events, EventsOfContracts({contract_id}))
            /\ last' = Deleted("contract_delete", contract_id, {},
                               EventsOfContracts({contract_id}))
    /\ UNCHANGED <<users, clients, sessionFile, now, probe, verdict, procs>>

\* A variant that deletes the events of a contract it unsigns.
ContractUpdateDroppingEvents(contract_id, total_amount, remaining_amount, is_signed, is_paid) ==
    LET Updated(id, out) ==
            [op |-> "contract_update", id |-> id, out |-> out,
             contract_id |-> contract_id, is_signed |-> is_signed,
             was_signed |-> contract_id \in DOMAIN contracts /\ contracts[contract_id].is_signed]
    IN  /\ IF contract_id \notin DOMAIN contracts
           THEN /\ contracts' = contracts
                /\ events' = events
                /\ last' = Updated(None, "error")
           ELSE LET c0 == contracts[contract_id]
                    c1 == IF Given(total_amount)
                          THEN [c0 EXCEPT !.total_amount = Value(total_amount)] ELSE c0
                    c2 == IF Given(remaining_amount)
                          THEN [c1 EXCEPT !.remaining_amount = Value(remaining_amount)] ELSE c1
                    c3 == IF Given(is_signed)
                          THEN [c2 EXCEPT !.is_signed = Value(is_signed)] ELSE c2
                    c4 == IF Given(is_paid)
                          THEN [c3 EXCEPT !.is_paid = Value(is_paid)] ELSE c3
                IN  IF IsNaN(c4.total_amount) \/ IsNaN(c4.remaining_amount)
                    THEN /\ contracts' = contracts     \* IntegrityError at commit: rollback
                         /\ events' = events
                         /\ last' = Updated(None, "ClickException")
                    ELSE /\ contracts' = [contracts EXCEPT ![contract_id] = c4]
                         /\ events' = IF c0.is_signed /\ ~c4.is_signed
                                      THEN Remove(events, EventsOfContracts({contract_id}))
                                      ELSE events
                         /\ last' = Updated(contract_id, "ok")
        /\ UNCHANGED <<users, clients, sessionFile, now, probe, verdict, procs>>

\* contract update --contract-id [--total-amount] [--remaining-amount] [--is-signed] [--is-paid]
ContractUpdate(contract_id, total_amount, remaining_amount, is_signed, is_paid) ==
    LET Updated(id, out) ==
            [op |-> "contract_update", id |-> id, out |-> out,
             contract_id |-> contract_id, is_signed |-> is_signed,
             was_signed |-> contract_id \in DOMAIN contracts /\ contracts[contract_id].is_signed]
    IN  /\ IF contract_id \notin DOMAIN contracts
           THEN /\ contracts' = contracts
                /\ last' = Updated(None, "error")
           ELSE LET c0 == contracts[contract_id]
                    c1 == IF Given(total_amount)
                          THEN [c0 EXCEPT !.total_amount = Value(total_amount)] ELSE c0
                    c2 == IF Given(remaining_amount)
                          THEN [c1 EXCEPT !.remaining_amount = Value(remaining_amount)] ELSE c1
                    c3 == IF Given(is_signed)
                          THEN [c2 EXCEPT !.is_signed = Value(is_signed)] ELSE c2
                    c4 == IF Given(is_paid)
                          THEN [c3 EXCEPT !.is_paid = Value(is_paid)] ELSE c3
                IN  IF IsNaN(c4.total_amount) \/ IsNaN(c4.remaining_amount)
                    THEN /\ contracts' = contracts     \* IntegrityError at commit: rollback
                         /\ last' = Updated(None, "ClickException")
                    ELSE /\ contracts' = [contracts EXCEPT ![contract_id] = c4]
                         /\ last' = Updated(contract_id, "ok")
        /\ UNCHANGED <<users, clients, events, sessionFile, now, probe, verdict, procs>>

-----------------------------------------------------------------------------
(* Event commands: commands/event_commands.py *)

\* A date option "YYYY-MM-DD HH:MM" as <<day, hour>>; strptime accepts hours 0..23.
ValidDate(text) == text[1] >= 1 /\ text[2] \in 0..23

\* datetime.strptime(text, "%Y-%m-%d %H:%M"), in minutes
ParseDate(text) == (text[1] - 1) * 24 * 60 + text[2] * 60

\* A variant that takes every contract for signed.
IsSignedAlways(contract) == TRUE

\* contract.is_signed, as event create tests it
IsSigned(contract) == contract.is_signed

\* A variant that takes the client of the oldest contract.
ClientOfFirstContract(contract_id) ==
    contracts[CHOOSE k \in DOMAIN contracts : \A j \in DOMAIN contracts : k <= j].client_id

\* contract.client_id, for the contract event create has loaded
ClientOf(contract_id) == contracts[contract_id].client_id

\* event create --contract-id --start-date --end-date --attendees
EventCreate(contract_id, start_date, end_date, attendees) ==
    LET id == NextId(events)
        Created(new, out) == [op |-> "event_create", id |-> new, out |-> out,
                              contract_id |-> contract_id]
    IN  /\ IF ~ValidDate(start_date) \/ ~ValidDate(end_date)
           THEN /\ events' = events
                /\ last' = Created(None, "error")
           ELSE IF ParseDate(end_date) <= ParseDate(start_date)
           THEN /\ events' = events
                /\ last' = Created(None, "error")
           ELSE IF contract_id \notin DOMAIN contracts
           THEN /\ events' = events
                /\ last' = Created(None, "error")
           ELSE IF ~IsSigned(contracts[contract_id])
           THEN /\ events' = events
                /\ last' = Created(None, "error")
           ELSE /\ id <= MaxEvents
                /\ events' = Insert(events, id,
                       [contract_id |-> contract_id,
                        client_id |-> ClientOf(contract_id),
                        support_id |-> None,
                        start_date |-> ParseDate(start_date),
                        end_date |-> ParseDate(end_date),
                        attendees |-> attendees])
                /\ last' = Created(id, "ok")
        /\ UNCHANGED <<users, clients, contracts, sessionFile, now, probe, verdict, procs>>

\* A variant that refuses only a support_id no user has.
NotSupportOnlyMissing(support_id) == support_id \notin DOMAIN users

\* `not support or support.role != "support"`, for session.query(User).get(support_id)
NotSupport(support_id) ==
    \/ support_id \notin DOMAIN users
    \/ users[support_id].role # "support"

\* event assign_support --event-id --support-id
AssignSupport(event_id, support_id) ==
    LET Assigned(id, out) == [op |-> "assign_support", id |-> id, out |-> out,
                              event_id |-> event_id, support_id |-> support_id]
    IN  /\ IF event_id \notin DOMAIN events
           THEN /\ events' = events
                /\ last' = Assigned(None, "error")
           ELSE IF NotSupport(support_id)
           THEN /\ events' = events
                /\ last' = Assigned(None, "error")
           ELSE /\ events' = [events EXCEPT ![event_id].support_id = support_id]
                /\ last' = Assigned(event_id, "ok")
        /\ UNCHANGED <<users, clients, contracts, sessionFile, now, probe, verdict, procs>>

\* A variant that keeps the fields it had accepted when a later one fails.
EventUpdateKeepingAccepted(event_id, start_date, end_date, attendees) ==
    LET Updated(id, out) == [op |-> "event_update", id |-> id, out |-> out,
                             event_id |-> event_id, dates |-> <<start_date, end_date>>]
    IN
    /\ IF event_id \notin DOMAIN events
       THEN /\ events' = events
            /\ last' = Updated(None, "error")
       ELSE IF \/ Given(start_date) /\ ~ValidDate(Value(start_date))
               \/ Given(end_date) /\ ~ValidDate(Value(end_date))
       THEN /\ events' = IF Given(start_date) /\ ValidDate(Value(start_date))
                         THEN [events EXCEPT ![event_id].start_date =
                                                ParseDate(Value(start_date))]
                         ELSE events
            /\ last' = Updated(None, "error")
       ELSE LET e0 == events[event_id]
                e1 == IF Given(start_date)
                      THEN [e0 EXCEPT !.start_date = ParseDate(Value(start_date))] ELSE e0
                e2 == IF Given(end_date)
                      THEN [e1 EXCEPT !.end_date = ParseDate(Value(end_date))] ELSE e1
                e3 == IF Given(attendees)
                      THEN [e2 EXCEPT !.attendees = Value(attendees)] ELSE e2
            IN  /\ events' = [events EXCEPT ![event_id] = e3]
                /\ last' = Updated(event_id, "ok")
    /\ UNCHANGED <<users, clients, contracts, sessionFile, now, probe, verdict, procs>>

\* event update --event-id [--start-date] [--end-date] [--attendees]
EventUpdate(event_id, start_date, end_date, attendees) ==
    LET Updated(id, out) == [op |-> "event_update", id |-> id, out |-> out,
                             event_id |-> event_id, dates |-> <<start_date, end_date>>]
    IN
    /\ IF event_id \notin DOMAIN events
       THEN /\ events' = events
            /\ last' = Updated(None, "error")
       ELSE IF \/ Given(start_date) /\ ~ValidDate(Value(start_date))
               \/ Given(end_date) /\ ~ValidDate(Value(end_date))
       THEN /\ events' = events            \* ValueError: rollback
            /\ last' = Updated(None, "error")
       ELSE LET e0 == events[event_id]
                e1 == IF Given(start_date)
                      THEN [e0 EXCEPT !.start_date = ParseDate(Value(start_date))] ELSE e0
                e2 == IF Given(end_date)
                      THEN [e1 EXCEPT !.end_date = ParseDate(Value(end_date))] ELSE e1
                e3 == IF Given(attendees)
                      THEN [e2 EXCEPT !.attendees = Value(attendees)] ELSE e2
            IN  /\ events' = [events EXCEPT ![event_id] = e3]
                /\ last' = Updated(event_id, "ok")
    /\ UNCHANGED <<users, clients, contracts, sessionFile, now, probe, verdict, procs>>


-----------------------------------------------------------------------------
(* Event status properties: models/event.py.  Each property reads the clock
   itself; t is the instant it reads. *)

\* Event.is_past
IsPast(event, t) == event.end_date < t

\* A variant that takes the event for over at its last instant.
IsOngoingBeforeEnd(event, t) == event.start_date <= t /\ t < event.end_date

\* Event.is_ongoing
IsOngoing(event, t) == event.start_date <= t /\ t <= event.end_date

\* Event.is_future
IsFuture(event, t) == event.start_date > t

\* A variant that never reports an event as over.
StatusNeverPast(event, t) ==
    IF event.start_date <= t /\ t <= event.end_date THEN "En cours" ELSE "À venir"

\* Event.status
Status(event, t) ==
    IF event.end_date < t THEN "Terminé"
    ELSE IF event.start_date <= t /\ t <= event.end_date THEN "En cours"
    ELSE "À venir"

\* The four properties of a stored event, read at the same instant.
EventStatus(event_id) ==
    /\ event_id \in DOMAIN events
    /\ last' = [op |-> "status", id |-> event_id, out |-> Status(events[event_id], now),
                is_past |-> IsPast(events[event_id], now),
                is_ongoing |-> IsOngoing(events[event_id], now),
                is_future |-> IsFuture(events[event_id], now)]
    /\ UNCHANGED <<store, sessionFile, now, probe, verdict, procs>>

\* datetime.utcnow() returns a later instant, up to limit.
Advance(limit) ==
    /\ \E t \in (now + 1)..limit : now' = t
    /\ last' = Call("advance", None, "None")
    /\ UNCHANGED <<store, sessionFile, probe, verdict, procs>>

-----------------------------------------------------------------------------
(* User commands: commands/user_commands.py *)

\* User.managed_clients, User.managed_contracts: rows whose commercial_id is the user
ManagedClients(u) == {c \in DOMAIN clients : clients[c].commercial_id = u}
ManagedContracts(u) == {k \in DOMAIN contracts : contracts[k].commercial_id = u}

\* User.managed_events: rows whose support_id is the user
ManagedEvents(u) == {e \in DOMAIN events : events[e].support_id = u}

\* A variant of the constraints that leaves the email column unconstrained.
UniqueViolatedUsernameOnly(table) ==
    \E i \in DOMAIN table, j \in DOMAIN table : i # j /\ table[i].username = table[j].username

\* The UNIQUE constraints of users.username and users.email fail on the rows a
\* commit is about to write.
UniqueViolated(table) ==
    \E i \in DOMAIN table, j \in DOMAIN table :
        /\ i # j
        /\ table[i].username = table[j].username \/ table[i].email = table[j].email

\* session.query(User).filter_by(email=email).first(), as a set of ids
UsersWithEmail(email) == {i \in DOMAIN users : users[i].email = email}

\* user create --username --email --password --role (names left out)
UserCreate(username, email, password, role) ==
    LET id == NextId(users)
        Created(new, out) == [op |-> "user_create", id |-> new, out |-> out,
                              username |-> username, email |-> email]
        row == [username |-> username, email |-> email, role |-> role,
                password_hash |-> Hash(password)]
    IN  /\ IF UserByName(username) # {}
           THEN /\ users' = users
                /\ last' = Created(None, "ClickException")
           ELSE IF UsersWithEmail(email) # {}
           THEN /\ users' = users
                /\ last' = Created(None, "ClickException")
           ELSE IF UniqueViolated(Insert(users, id, row))
           THEN /\ users' = users              \* IntegrityError at commit: rollback
                /\ last' = Created(None, "ClickException")
           ELSE /\ id <= MaxUsers
                /\ users' = Insert(users, id, row)
                /\ last' = Created(id, "ok")
        /\ UNCHANGED <<clients, contracts, events, sessionFile, now, probe, verdict, procs>>

\* user update --user-id [--username] [--email] [--role]; password and names
\* are left out.  An option that is empty is not applied.
UserUpdate(user_id, username, email, role) ==
    LET Updated(id, out) == [op |-> "user_update", id |-> id, out |-> out, role |-> role,
                             user_id |-> user_id, username |-> username, email |-> email]
    IN  /\ IF user_id \notin DOMAIN users
           THEN /\ users' = users
                /\ last' = Updated(None, "ClickException")
           ELSE LET u0 == users[user_id]
                    u1 == IF Truthy(username)
                          THEN [u0 EXCEPT !.username = Value(username)] ELSE u0
                    u2 == IF Truthy(email)
                          THEN [u1 EXCEPT !.email = Value(email)] ELSE u1
                    u3 == IF Truthy(role)
                          THEN [u2 EXCEPT !.role = Value(role)] ELSE u2
                    written == [users EXCEPT ![user_id] = u3]
                IN  IF UniqueViolated(written)
                    THEN /\ users' = users      \* IntegrityError at commit: rollback
                         /\ last' = Updated(None, "ClickException")
                    ELSE /\ users' = written
                         /\ last' = Updated(user_id, "ok")
        /\ UNCHANGED <<clients, contracts, events, sessionFile, now, probe, verdict, procs>>

\* The outcome of a user delete, with the number of clients, contracts and
\* events that referenced the user when the command ran.
UserDeleted(user_id, id, out) ==
    [op |-> "user_delete", id |-> id, out |-> out,
     managed |-> <<Cardinality(ManagedClients(user_id)),
                   Cardinality(ManagedContracts(user_id)),
                   Cardinality(ManagedEvents(user_id))>>]

\* A variant that deletes the events the user supports along with the user.
UserDeleteWithEvents(user_id) ==
    /\ IF user_id \notin DOMAIN users
       THEN /\ UNCHANGED <<users, events>>
            /\ last' = UserDeleted(user_id, None, "ClickException")
       ELSE IF ManagedClients(user_id) # {} \/ ManagedContracts(user_id) # {}
       THEN /\ UNCHANGED <<users, events>>
            /\ last' = UserDeleted(user_id, None, "ClickException")
       ELSE /\ users' = Remove(users, {user_id})
            /\ events' = Remove(events, ManagedEvents(user_id))
            /\ last' = UserDeleted(user_id, user_id, "ok")
    /\ UNCHANGED <<clients, contracts, sessionFile, now, probe, verdict, procs>>

\* user delete --user-id.  The three relationships declare no cascade, so the
\* flush sets the children's foreign key to NULL: commercial_id is NOT NULL
\* (IntegrityError, rollback), support_id is nullable.
UserDelete(user_id) ==
    /\ IF user_id \notin DOMAIN users
       THEN /\ UNCHANGED <<users, events>>
            /\ last' = UserDeleted(user_id, None, "ClickException")
       ELSE IF ManagedClients(user_id) # {} \/ ManagedContracts(user_id) # {}
       THEN /\ UNCHANGED <<users, events>>
            /\ last' = UserDeleted(user_id, None, "ClickException")
       ELSE /\ users' = Remove(users, {user_id})
            /\ events' = [e \in DOMAIN events |->
                            IF e \in ManagedEvents(user_id)
                            THEN [events[e] EXCEPT !.support_id = None]
                            ELSE events[e]]
            /\ last' = UserDeleted(user_id, user_id, "ok")
    /\ UNCHANGED <<clients, contracts, sessionFile, now, probe, verdict, procs>>

-----------------------------------------------------------------------------
(* Contract payment methods: models/contract.py *)

\* Contract.is_fully_paid
IsFullyPaid(c) == FloatLe(c.remaining_amount, 0)

\* What a record_payment call did.
Paid(contract_id, amount, out) ==
    [op |-> "record_payment", id |-> contract_id, out |-> out, amount |-> amount]

\* A variant without the comparison against remaining_amount.
RecordPaymentUnbounded(contract_id, amount) ==
    /\ contract_id \in DOMAIN contracts
    /\ IF FloatLe(amount, 0)
       THEN /\ contracts' = contracts
            /\ last' = Paid(contract_id, amount, "False")
       ELSE LET r == FloatSub(contracts[contract_id].remaining_amount, amount)
            IN  IF IsNaN(r)
                THEN /\ contracts' = contracts    \* session.commit() raises
                     /\ last' = Paid(contract_id, amount, "IntegrityError")
                ELSE /\ contracts' = [contracts EXCEPT ![contract_id].remaining_amount = r]
                     /\ last' = Paid(contract_id, amount, "True")
    /\ UNCHANGED <<users, clients, events, sessionFile, now, probe, verdict, procs>>

\* A variant that marks the contract paid when nothing remains.
RecordPaymentMarkingPaid(contract_id, amount) ==
    /\ contract_id \in DOMAIN contracts
    /\ IF FloatLe(amount, 0) \/ FloatGt(amount, contracts[contract_id].remaining_amount)
       THEN /\ contracts' = contracts
            /\ last' = Paid(contract_id, amount, "False")
       ELSE LET r == FloatSub(contracts[contract_id].remaining_amount, amount)
            IN  IF IsNaN(r)
                THEN /\ contracts' = contracts
                     /\ last' = Paid(contract_id, amount, "IntegrityError")
                ELSE /\ contracts' = [contracts EXCEPT ![contract_id].remaining_amount = r,
                                                       ![contract_id].is_paid = (r = 0)]
                     /\ last' = Paid(contract_id, amount, "True")
    /\ UNCHANGED <<users, clients, events, sessionFile, now, probe, verdict, procs>>

\* Contract.record_payment(session, amount) on the contract with key contract_id;
\* contracts holds the stored rows.
RecordPayment(contract_id, amount) ==
    /\ contract_id \in DOMAIN contracts
    /\ IF FloatLe(amount, 0) \/ FloatGt(amount, contracts[contract_id].remaining_amount)
       THEN /\ contracts' = contracts
            /\ last' = Paid(contract_id, amount, "False")
       ELSE LET r == FloatSub(contracts[contract_id].remaining_amount, amount)
            IN  IF IsNaN(r)
                THEN /\ contracts' = contracts    \* session.commit() raises
                     /\ last' = Paid(contract_id, amount, "IntegrityError")
                ELSE /\ contracts' = [contracts EXCEPT ![contract_id].remaining_amount = r]
                     /\ last' = Paid(contract_id, amount, "True")
    /\ UNCHANGED <<users, clients, events, sessionFile, now, probe, verdict, procs>>

-----------------------------------------------------------------------------
(* Permission predicates: models/user.py, client.py, contract.py, event.py.
   An actor is [id, role]; event.contract is passed as the contract row. *)

\* User.has_role
HasRole(user, role) == user.role = role

\* User.is_admin
IsAdmin(user) == HasRole(user, ADMIN)

\* User.is_commercial
IsCommercial(user) == HasRole(user, COMMERCIAL)

\* User.is_support
IsSupport(user) == HasRole(user, SUPPORT)

\* A variant that lets a commercial manage every client.
CanManageClientAnyCommercial(user, client) ==
    IsAdmin(user) \/ HasRole(user, GESTION) \/ IsCommercial(user)

\* User.can_manage_client
CanManageClient(user, client) ==
    IF IsAdmin(user) \/ HasRole(user, GESTION) THEN TRUE
    ELSE IF IsCommercial(user) THEN client.commercial_id = user.id
    ELSE FALSE

\* User.can_manage_event
CanManageEvent(user, event, contract) ==
    IF IsAdmin(user) \/ HasRole(user, GESTION) THEN TRUE
    ELSE IF IsCommercial(user) THEN contract.commercial_id = user.id
    ELSE IF IsSupport(user) THEN event.support_id = user.id
    ELSE FALSE

\* Client.can_be_edited_by
ClientCanBeEditedBy(client, user) ==
    \/ HasRole(user, GESTION)
    \/ HasRole(user, COMMERCIAL) /\ client.commercial_id = user.id

\* Contract.can_be_edited_by
ContractCanBeEditedBy(contract, user) ==
    \/ HasRole(user, GESTION)
    \/ HasRole(user, COMMERCIAL) /\ contract.commercial_id = user.id

\* Event.can_be_edited_by
EventCanBeEditedBy(event, contract, user) ==
    \/ HasRole(user, GESTION)
    \/ HasRole(user, SUPPORT) /\ event.support_id = user.id
    \/ HasRole(user, COMMERCIAL) /\ contract.commercial_id = user.id

NotEvaluated == [done |-> FALSE]

\* Evaluate the five predicates on the probe.
Evaluate ==
    /\ verdict = NotEvaluated
    /\ verdict' =
         [done |-> TRUE,
          can_manage_client |-> CanManageClient(probe.user, probe.client),
          can_manage_event |-> CanManageEvent(probe.user, probe.event, probe.contract),
          client_editable |-> ClientCanBeEditedBy(probe.client, probe.user),
          contract_editable |-> ContractCanBeEditedBy(probe.contract, probe.user),
          event_editable |-> EventCanBeEditedBy(probe.event, probe.contract, probe.user)]
    /\ UNCHANGED <<store, sessionFile, now, last, probe, procs>>


-----------------------------------------------------------------------------
(* The guards: auth.py *)

\* The permission checks handed to check_permission, applied to the user.
Permits(p, user) ==
    CASE p = "allow" -> TRUE
      [] p = "deny" -> FALSE
      [] p = "is_admin" -> IsAdmin(user)

\* A variant that gives the actor the role its session record carries.
ActorWithSessionRole(id) == [users[id] EXCEPT !.role = sessionFile.role]

\* The User that get_current_user hands to the guards: session.get(User, user_id)
Actor(id) == users[id]

\* A call of a function wrapped by require_auth(role): what the wrapper
\* returned ("result" stands for the function's own value) and whether the
\* function ran.
RequireAuth(role) ==
    LET r == Lookup(sessionFile, now)
        Guarded(out, ran) == [op |-> "require_auth", id |-> r.id, out |-> out,
                              ran |-> ran, role |-> role]
    IN  /\ sessionFile' = r.file
        /\ last' = IF r.out # "User"
                   THEN Guarded(r.out, FALSE)
                   ELSE IF Truthy(role) /\ ~HasRole(Actor(r.id), Value(role))
                   THEN Guarded("None", FALSE)
                   ELSE Guarded("result", TRUE)
        /\ UNCHANGED <<store, now, probe, verdict, procs>>

\* A call of a function wrapped by check_permission(p).
CheckPermission(p) ==
    LET r == Lookup(sessionFile, now)
        Guarded(out, ran) == [op |-> "check_permission", id |-> r.id, out |-> out,
                              ran |-> ran, check |-> p]
    IN  /\ sessionFile' = r.file
        /\ last' = IF r.out # "User"
                   THEN Guarded(r.out, FALSE)
                   ELSE IF ~Permits(p, Actor(r.id))
                   THEN Guarded("None", FALSE)
                   ELSE Guarded("result", TRUE)
        /\ UNCHANGED <<store, now, probe, verdict, procs>>

-----------------------------------------------------------------------------
(* Concurrent calls into auth.py.  Each process runs one call of login,
   get_current_user or logout, one system call per step.  The session file
   is NoFile or its content with two more fields: size, the length of the
   text, and inode, the file the path names. *)

\* The length of json.dump(session_data), up to the part every record shares.
TextLength(data) == Len(data.username) + Len(data.role)

\* A file open(SESSION_FILE, "w") has just created or truncated: json.load rejects it.
Truncated(inode) == [kind |-> "not_json", size |-> 0, inode |-> inode]

\* write(fd, text) at offset 0 of a file that holds f: the text replaces the
\* first bytes; what f has beyond them stays, and json.load rejects the whole.
Written(f, data) ==
    IF TextLength(data) >= f.size
    THEN [kind |-> "object", user_id |-> data.user_id, username |-> data.username,
          role |-> data.role, expires_at |-> data.expires_at,
          size |-> TextLength(data), inode |-> f.inode]
    ELSE [kind |-> "not_json", size |-> f.size, inode |-> f.inode]

\* One step of process p: its new state and what the step did.
Step(p, state, op, out) ==
    /\ procs' = [procs EXCEPT ![p] = state]
    /\ last' = [op |-> op, id |-> p, out |-> out, proc |-> procs[p].op]
    /\ UNCHANGED <<store, now, probe, verdict>>

\* login: the query, the password check and session_data
LoginAuthenticate(p) ==
    /\ procs[p].op = "login" /\ procs[p].pc = "start"
    /\ LET found == UserByName(procs[p].username)
           ok == found # {} /\ \A i \in found : CheckPassword(users[i], procs[p].password)
       IN  IF ok
           THEN \E i \in found :
                   Step(p, [procs[p] EXCEPT !.pc = "open", !.data = SessionData(i, now)],
                        "login_authenticate", "none")
           ELSE Step(p, [procs[p] EXCEPT !.pc = "done", !.out = "AuthenticationError"],
                     "login_authenticate", "AuthenticationError")
    /\ sessionFile' = sessionFile

\* login: open(SESSION_FILE, "w") creates the file or truncates it
LoginOpen(p) ==
    /\ procs[p].op = "login" /\ procs[p].pc = "open"
    /\ LET inode == IF sessionFile = NoFile THEN p ELSE sessionFile.inode
       IN  /\ sessionFile' = Truncated(inode)
           /\ Step(p, [procs[p] EXCEPT !.pc = "write", !.fd = inode], "login_open", "none")

\* login: json.dump and the close of the file, which writes the buffered text
\* at offset 0 of the file it opened, whether or not the path still names it
LoginWrite(p) ==
    /\ procs[p].op = "login" /\ procs[p].pc = "write"
    /\ sessionFile' = IF sessionFile # NoFile /\ sessionFile.inode = procs[p].fd
                      THEN Written(sessionFile, procs[p].data)
                      ELSE sessionFile
    /\ Step(p, [procs[p] EXCEPT !.pc = "done", !.out = "User"], "login_write", "User")

\* get_current_user: os.path.exists(SESSION_FILE)
LookupExists(p) ==
    /\ procs[p].op = "get_current_user" /\ procs[p].pc = "start"
    /\ sessionFile' = sessionFile
    /\ IF sessionFile = NoFile
       THEN Step(p, [procs[p] EXCEPT !.pc = "done", !.out = "None"], "lookup_exists", "None")
       ELSE Step(p, [procs[p] EXCEPT !.pc = "read"], "lookup_exists", "none")

\* get_current_user: open, json.load and the try block up to logout() or the
\* return.  open raises FileNotFoundError when the file is gone, and the
\* except clause does not name it.
LookupRead(p) ==
    /\ procs[p].op = "get_current_user" /\ procs[p].pc = "read"
    /\ sessionFile' = sessionFile
    /\ IF sessionFile = NoFile
       THEN Step(p, [procs[p] EXCEPT !.pc = "done", !.out = "FileNotFoundError"],
                 "lookup_read", "FileNotFoundError")
       ELSE LET r == Lookup(sessionFile, now)
            IN  IF r.logged_out
                THEN Step(p, [procs[p] EXCEPT !.pc = "exists", !.data = sessionFile],
                          "lookup_read", "none")
                ELSE Step(p, [procs[p] EXCEPT !.pc = "done", !.out = r.out,
                                              !.data = sessionFile],
                          "lookup_read", r.out)

\* logout, called by itself or by get_current_user: os.path.exists(SESSION_FILE)
LogoutExists(p) ==
    /\ procs[p].op \in {"logout", "get_current_user"} /\ procs[p].pc = "exists"
    /\ sessionFile' = sessionFile
    /\ IF sessionFile = NoFile
       THEN LET out == IF procs[p].op = "logout" THEN "False" ELSE "None"
            IN  Step(p, [procs[p] EXCEPT !.pc = "done", !.out = out], "logout_exists", out)
       ELSE Step(p, [procs[p] EXCEPT !.pc = "remove"], "logout_exists", "none")

\* logout: os.remove(SESSION_FILE); `except Exception` when the file is gone
LogoutRemove(p) ==
    /\ procs[p].op \in {"logout", "get_current_user"} /\ procs[p].pc = "remove"
    /\ sessionFile' = NoFile
    /\ LET out == IF procs[p].op = "get_current_user" THEN "None"
                  ELSE IF sessionFile = NoFile THEN "False" ELSE "True"
       IN  Step(p, [procs[p] EXCEPT !.pc = "done", !.out = out], "logout_remove", out)

-----------------------------------------------------------------------------
(* Input sets and initial stores *)

Password == "secret"

\* The admin created by `init` and one account per team, two for the commercial team.
Staff ==
    <<User("admin", Password, ADMIN),
      User("com_a", Password, COMMERCIAL),
      User("com_b", Password, COMMERCIAL),
      User("sup", Password, SUPPORT)>>

Emails == {"a@x.com", "b@x.com", "c@x.com"}

UserIdArgs == 1..(Len(Staff) + 1)
ClientIdArgs == 1..(MaxClients + 1)
ContractIdArgs == 1..(MaxContracts + 1)
EventIdArgs == 1..(MaxEvents + 1)

\* Date options: two well-formed ones and one strptime rejects.
Morning == <<1, 9>>
Evening == <<1, 17>>
Noon == <<1, 12>>
BadDate == <<1, 24>>

NoProbe == [done |-> FALSE]

\* The store after `init` and the creation of the staff accounts; nobody logged in.
EmptyStore ==
    /\ users = Staff
    /\ clients = << >>
    /\ contracts = << >>
    /\ events = << >>
    /\ sessionFile = NoFile
    /\ now = 0
    /\ last = Call("init", None, "None")
    /\ probe = NoProbe
    /\ verdict = NotEvaluated
    /\ procs = << >>

-----------------------------------------------------------------------------
(* Spec: the command layer.  Any sequence of logins, logouts and client,
   contract and event commands from the empty store. *)

Init == EmptyStore

Next ==
    \/ \E pw \in {Password, "wrong"} : Login("com_a", pw)
    \/ Logout
    \/ \E email \in {"a@x.com", "b@x.com"}, u \in {1, 2, 3} : ClientCreate(email, u)
    \/ \E c \in ClientIdArgs : ClientDelete(c)
    \/ \E c \in ClientIdArgs, email \in Opt({"a@x.com", "b@x.com"}) : ClientUpdate(c, email)
    \/ \E c \in ClientIdArgs, amount \in {0, 1} : ContractCreate(c, amount, TRUE, FALSE)
    \/ \E k \in ContractIdArgs : ContractDelete(k)
    \/ \E k \in ContractIdArgs, paid \in Opt({TRUE}) :
          ContractUpdate(k, << >>, << >>, << >>, paid)
    \/ \E k \in ContractIdArgs, s \in {Morning, BadDate}, e \in {Morning, Evening} :
          EventCreate(k, s, e, 50)
    \/ \E e \in EventIdArgs, u \in {3, 4} : AssignSupport(e, u)
    \/ \E e \in EventIdArgs, n \in Opt({50}) : EventUpdate(e, << >>, << >>, n)

Spec == Init /\ [][Next]_vars


-----------------------------------------------------------------------------
(* SpecCascade: clients, signed contracts and their events are created and
   deleted in any order. *)

\* An address no client uses yet, while there is one.
FreshEmail ==
    IF \E e \in Emails : ClientsWithEmail(e) = {}
    THEN CHOOSE e \in Emails : ClientsWithEmail(e) = {}
    ELSE CHOOSE e \in Emails : TRUE

InitCascade == EmptyStore

NextCascade ==
    \/ \E u \in {2, 3} : ClientCreate(FreshEmail, u)
    \/ \E c \in ClientIdArgs : ClientDelete(c)
    \/ \E c \in ClientIdArgs : ContractCreate(c, 1, TRUE, FALSE)
    \/ \E k \in ContractIdArgs : ContractDelete(k)
    \/ \E k \in ContractIdArgs : EventCreate(k, Morning, Evening, 50)

SpecCascade == InitCascade /\ [][NextCascade]_vars

-----------------------------------------------------------------------------
(* SpecEvents: one client; contracts are created signed or not, signed,
   unsigned and deleted, and events are requested with every combination of
   dates and attendee counts. *)

InitEvents ==
    /\ users = Staff
    /\ clients = <<[email |-> "a@x.com", commercial_id |-> 2]>>
    /\ contracts = << >>
    /\ events = << >>
    /\ sessionFile = NoFile
    /\ now = 0
    /\ last = Call("init", None, "None")
    /\ probe = NoProbe
    /\ verdict = NotEvaluated
    /\ procs = << >>

NextEvents ==
    \/ \E signed \in BOOLEAN : ContractCreate(1, 1, signed, FALSE)
    \/ \E k \in ContractIdArgs : ContractDelete(k)
    \/ \E k \in ContractIdArgs, signed \in Opt(BOOLEAN) :
          ContractUpdate(k, << >>, << >>, signed, << >>)
    \/ \E k \in ContractIdArgs, s \in {Morning, Evening, BadDate},
          e \in {Morning, Evening, BadDate}, n \in {-1, 50} : EventCreate(k, s, e, n)

SpecEvents == InitEvents /\ [][NextEvents]_vars

-----------------------------------------------------------------------------
(* SpecStaffing: one client with a signed contract; events are created, given
   a support and rescheduled while users change role and are deleted. *)

InitStaffing ==
    /\ users = Staff
    /\ clients = <<[email |-> "a@x.com", commercial_id |-> 2]>>
    /\ contracts = <<[client_id |-> 1, commercial_id |-> 2, total_amount |-> 1,
                      remaining_amount |-> 1, is_signed |-> TRUE, is_paid |-> FALSE]>>
    /\ events = << >>
    /\ sessionFile = NoFile
    /\ now = 0
    /\ last = Call("init", None, "None")
    /\ probe = NoProbe
    /\ verdict = NotEvaluated
    /\ procs = << >>

NextStaffing ==
    \/ EventCreate(1, Morning, Evening, 50)
    \/ \E e \in EventIdArgs, u \in UserIdArgs : AssignSupport(e, u)
    \/ \E u \in {3, 4}, role \in {<<COMMERCIAL>>, <<SUPPORT>>} :
          UserUpdate(u, << >>, << >>, role)
    \/ \E u \in {2, 3, 4} : UserDelete(u)

SpecStaffing == InitStaffing /\ [][NextStaffing]_vars

-----------------------------------------------------------------------------
(* SpecSchedule: events are created on a signed contract and rescheduled with
   every combination of date options. *)

InitSchedule == InitStaffing

NextSchedule ==
    \/ \E s \in {Morning, Evening, BadDate}, e \in {Morning, Evening, BadDate} :
          EventCreate(1, s, e, 50)
    \/ \E ev \in EventIdArgs, s \in Opt({Morning, Evening, BadDate}),
          e \in Opt({Morning, Evening, BadDate}), n \in Opt({20}) :
             EventUpdate(ev, s, e, n)

SpecSchedule == InitSchedule /\ [][NextSchedule]_vars

-----------------------------------------------------------------------------
(* SpecStatus: the status properties of one event, for every start, end and
   clock reading up to MaxTime, the clock also before the start and after the
   end. *)

MaxTime == 4

InitStatus ==
    /\ users = Staff
    /\ clients = <<[email |-> "a@x.com", commercial_id |-> 2]>>
    /\ contracts = <<[client_id |-> 1, commercial_id |-> 2, total_amount |-> 1,
                      remaining_amount |-> 1, is_signed |-> TRUE, is_paid |-> FALSE]>>
    /\ \E s \in 1..MaxTime, e \in 1..MaxTime :
          events = <<[contract_id |-> 1, client_id |-> 1, support_id |-> None,
                      start_date |-> s, end_date |-> e, attendees |-> 50]>>
    /\ sessionFile = NoFile
    /\ now \in 0..(MaxTime + 1)
    /\ last = Call("init", None, "None")
    /\ probe = NoProbe
    /\ verdict = NotEvaluated
    /\ procs = << >>

NextStatus == \E e \in DOMAIN events : EventStatus(e)

SpecStatus == InitStatus /\ [][NextStatus]_vars

-----------------------------------------------------------------------------
(* SpecRace: two logins, a get_current_user and a logout run concurrently,
   from no session file, a live record or an expired one. *)

\* A call of op that has not started.
Process(op, username, password) ==
    [op |-> op, pc |-> IF op = "logout" THEN "exists" ELSE "start", out |-> "none",
     username |-> username, password |-> password, data |-> NoFile, fd |-> None]

\* The record an earlier login of user i left, expiring at instant t.
OnDisk(i, t) ==
    [kind |-> "object", user_id |-> i, username |-> Staff[i].username,
     role |-> Staff[i].role, expires_at |-> t,
     size |-> Len(Staff[i].username) + Len(Staff[i].role), inode |-> None]

InitRace ==
    /\ users = Staff
    /\ clients = << >>
    /\ contracts = << >>
    /\ events = << >>
    /\ now = 1
    /\ sessionFile \in {NoFile, OnDisk(4, 0), OnDisk(4, 2)}
    /\ last = Call("init", None, "None")
    /\ probe = NoProbe
    /\ verdict = NotEvaluated
    /\ procs = <<Process("login", "admin", Password),
                 Process("login", "com_a", Password),
                 Process("get_current_user", "", ""),
                 Process("logout", "", "")>>

NextRace ==
    \/ \E p \in DOMAIN procs : LoginAuthenticate(p)
    \/ \E p \in DOMAIN procs : LoginOpen(p)
    \/ \E p \in DOMAIN procs : LoginWrite(p)
    \/ \E p \in DOMAIN procs : LookupExists(p)
    \/ \E p \in DOMAIN procs : LookupRead(p)
    \/ \E p \in DOMAIN procs : LogoutExists(p)
    \/ \E p \in DOMAIN procs : LogoutRemove(p)

SpecRace == InitRace /\ [][NextRace]_vars

-----------------------------------------------------------------------------
(* SpecActor: users log in and call the guards while accounts change role,
   are deleted and are created. *)

InitActor == EmptyStore

NextActor ==
    \/ \E name \in {"admin", "sup"} : Login(name, Password)
    \/ Logout
    \/ GetCurrentUser
    \/ \E role \in Opt({ADMIN, SUPPORT}) : RequireAuth(role)
    \/ CheckPermission("is_admin")
    \/ \E u \in {1, 4}, role \in {ADMIN, SUPPORT} : UserUpdate(u, << >>, << >>, <<role>>)
    \/ \E u \in {1, 4} : UserDelete(u)
    \/ \E role \in {ADMIN, SUPPORT} : UserCreate("new", "new@epic.com", Password, role)

SpecActor == InitActor /\ [][NextActor]_vars

-----------------------------------------------------------------------------
(* SpecLinks: two clients; contracts and events are created for both and
   every update and delete command runs on them. *)

InitLinks ==
    /\ users = Staff
    /\ clients = <<[email |-> "a@x.com", commercial_id |-> 2],
                   [email |-> "b@x.com", commercial_id |-> 3]>>
    /\ contracts = << >>
    /\ events = << >>
    /\ sessionFile = NoFile
    /\ now = 0
    /\ last = Call("init", None, "None")
    /\ probe = NoProbe
    /\ verdict = NotEvaluated
    /\ procs = << >>

NextLinks ==
    \/ \E c \in {1, 2} : ContractCreate(c, 1, TRUE, FALSE)
    \/ \E k \in ContractIdArgs : EventCreate(k, Morning, Evening, 50)
    \/ \E e \in EventIdArgs : EventUpdate(e, <<Morning>>, << >>, << >>)
    \/ \E k \in ContractIdArgs : ContractUpdate(k, << >>, << >>, <<FALSE>>, << >>)
    \/ \E k \in ContractIdArgs : ContractDelete(k)
    \/ ClientUpdate(2, <<"c@x.com">>)
    \/ \E c \in {1, 2} : ClientDelete(c)

SpecLinks == InitLinks /\ [][NextLinks]_vars

-----------------------------------------------------------------------------
(* SpecFailing: every update, delete and assignment command runs on ids that
   exist and on ids that do not, and event update with dates strptime
   accepts and rejects. *)

InitFailing == InitStaffing

NextFailing ==
    \/ EventCreate(1, Morning, Evening, 50)
    \/ \E ev \in EventIdArgs, s \in Opt({Noon, BadDate}), e \in Opt({BadDate}) :
          EventUpdate(ev, s, e, <<20>>)
    \/ \E ev \in EventIdArgs, u \in {2, 4, 5} : AssignSupport(ev, u)
    \/ \E c \in ClientIdArgs : ClientUpdate(c, <<"b@x.com">>)
    \/ \E c \in ClientIdArgs : ClientDelete(c)
    \/ \E k \in ContractIdArgs : ContractUpdate(k, << >>, << >>, << >>, <<TRUE>>)
    \/ \E k \in ContractIdArgs : ContractDelete(k)
    \/ \E u \in {4, 5} : UserUpdate(u, << >>, << >>, <<COMMERCIAL>>)
    \/ \E u \in {2, 4, 5} : UserDelete(u)

SpecFailing == InitFailing /\ [][NextFailing]_vars

-----------------------------------------------------------------------------
(* SpecUsers: users are created, renamed, given another address and deleted,
   with names and addresses that are free and that are taken, and log in. *)

InitUsers == EmptyStore

NextUsers ==
    \/ \E name \in {"admin", "new"}, email \in {"sup@epic.com", "new@epic.com"} :
          UserCreate(name, email, Password, SUPPORT)
    \/ \E u \in {3, 4, 5, 6}, name \in Opt({"admin", "new", ""}),
          email \in Opt({"sup@epic.com", "new@epic.com"}) : UserUpdate(u, name, email, << >>)
    \/ \E u \in {3, 4} : UserDelete(u)
    \/ \E name \in {"admin", "new"} : Login(name, Password)

SpecUsers == InitUsers /\ [][NextUsers]_vars

-----------------------------------------------------------------------------
(* SpecClock: one event with every start and end up to MaxTime; the clock
   starts before the first start, advances past the last end, and the status
   properties are read along the way. *)

InitClock ==
    /\ users = Staff
    /\ clients = <<[email |-> "a@x.com", commercial_id |-> 2]>>
    /\ contracts = <<[client_id |-> 1, commercial_id |-> 2, total_amount |-> 1,
                      remaining_amount |-> 1, is_signed |-> TRUE, is_paid |-> FALSE]>>
    /\ \E s \in 1..MaxTime, e \in 1..MaxTime :
          events = <<[contract_id |-> 1, client_id |-> 1, support_id |-> None,
                      start_date |-> s, end_date |-> e, attendees |-> 50]>>
    /\ sessionFile = NoFile
    /\ now = 0
    /\ last = Call("init", None, "None")
    /\ probe = NoProbe
    /\ verdict = NotEvaluated
    /\ procs = << >>

NextClock ==
    \/ Advance(MaxTime + 1)
    \/ \E e \in DOMAIN events : EventStatus(e)

SpecClock == InitClock /\ [][NextClock]_vars

-----------------------------------------------------------------------------
(* SpecClients: client create, update and delete with colliding addresses,
   for users that exist or not and whose role changes. *)

InitClients == EmptyStore

NextClients ==
    \/ \E email \in Emails, u \in UserIdArgs : ClientCreate(email, u)
    \/ \E u \in {3, 4, 5}, role \in Opt({COMMERCIAL, SUPPORT}) :
          UserUpdate(u, << >>, << >>, role)
    \/ \E c \in ClientIdArgs, email \in Opt(Emails) : ClientUpdate(c, email)
    \/ \E c \in ClientIdArgs : ClientDelete(c)

SpecClients == InitClients /\ [][NextClients]_vars

-----------------------------------------------------------------------------
(* SpecAuth: logins, logouts and lookups of the current user as time passes
   and accounts are deleted. *)

InitAuth == EmptyStore

NextAuth ==
    \/ \E name \in {"admin", "com_a", "nobody"}, pw \in {Password, "wrong"} : Login(name, pw)
    \/ Logout
    \/ GetCurrentUser
    \/ Tick
    \/ \E u \in {1, 2} : UserDelete(u)

SpecAuth == InitAuth /\ [][NextAuth]_vars

-----------------------------------------------------------------------------
(* SpecSession: login, logout and get_current_user over every content the
   session file can have: none, a live or expired record of an existing or a
   deleted user, and the unreadable contents. *)

\* The staff and an account created without a password.
SessionUsers ==
    Append(Staff, [username |-> "nopass", email |-> "nopass@epic.com", role |-> SUPPORT,
                   password_hash |-> NoHash])

\* Records as login writes them; user 9 has been deleted since.
SessionObjects ==
    {[kind |-> "object", user_id |-> i, username |-> "u", role |-> r, expires_at |-> e] :
        i \in {1, 2, 9}, r \in {ADMIN, COMMERCIAL}, e \in {0, Hours(SESSION_DURATION)}}

Files ==
    {NoFile} \cup SessionObjects
    \cup {[kind |-> "not_json"], [kind |-> "not_object"], [kind |-> "bad_timestamp"]}
    \cup {[kind |-> "no_expires_at", user_id |-> 1]}
    \cup {[kind |-> "no_user_id", expires_at |-> e] : e \in {0, Hours(SESSION_DURATION)}}

InitSession ==
    /\ users = SessionUsers
    /\ clients = << >>
    /\ contracts = << >>
    /\ events = << >>
    /\ sessionFile \in Files
    /\ now \in 0..MaxStart
    /\ last = Call("init", None, "None")
    /\ probe = NoProbe
    /\ verdict = NotEvaluated
    /\ procs = << >>

NextSession ==
    \/ \E name \in {"admin", "com_a", "nopass", "nobody"}, pw \in {Password, "wrong", ""} :
          Login(name, pw)
    \/ Logout
    \/ GetCurrentUser
    \/ \E role \in Opt({ADMIN, COMMERCIAL, "Admin", ""}) : RequireAuth(role)
    \/ \E p \in {"allow", "deny", "is_admin"} : CheckPermission(p)

SpecSession == InitSession /\ [][NextSession]_vars

-----------------------------------------------------------------------------
(* SpecContracts: contracts created, updated, paid and deleted for the clients
   of two commercials, while clients are updated and users deleted. *)

InitContracts ==
    /\ users = Staff
    /\ clients = <<[email |-> "a@x.com", commercial_id |-> 2],
                   [email |-> "c@x.com", commercial_id |-> 3]>>
    /\ contracts = << >>
    /\ events = << >>
    /\ sessionFile = NoFile
    /\ now = 0
    /\ last = Call("init", None, "None")
    /\ probe = NoProbe
    /\ verdict = NotEvaluated
    /\ procs = << >>

NextContracts ==
    \/ \E c \in 1..3, total \in {0, 1, NaN} : ContractCreate(c, total, TRUE, FALSE)
    \/ \E k \in ContractIdArgs, total \in Opt({0, NaN}) :
          ContractUpdate(k, total, << >>, << >>, << >>)
    \/ \E k \in ContractIdArgs, remaining \in Opt({2}) :
          ContractUpdate(k, << >>, remaining, << >>, << >>)
    \/ \E k \in DOMAIN contracts : RecordPayment(k, 1)
    \/ \E k \in ContractIdArgs : ContractDelete(k)
    \/ ClientUpdate(1, <<"b@x.com">>)
    \/ UserDelete(2)

SpecContracts == InitContracts /\ [][NextContracts]_vars

-----------------------------------------------------------------------------
(* SpecPay: payments recorded against contracts in any payment state. *)

\* Two contracts, so that a payment on one can be seen to leave the other alone.
PayContracts == {1, 2}

ContractRows ==
    {[client_id |-> 1, commercial_id |-> 2, total_amount |-> t, remaining_amount |-> r,
      is_signed |-> TRUE, is_paid |-> p] :
        t \in 1..MaxAmount, r \in 0..MaxAmount, p \in BOOLEAN}

InitPay ==
    /\ users = Staff
    /\ clients = <<[email |-> "a@x.com", commercial_id |-> 2]>>
    /\ contracts \in [PayContracts -> {c \in ContractRows : c.remaining_amount <= c.total_amount}]
    /\ events = << >>
    /\ sessionFile = NoFile
    /\ now = 0
    /\ last = Call("init", None, "None")
    /\ probe = NoProbe
    /\ verdict = NotEvaluated
    /\ procs = << >>

NextPay ==
    \E k \in DOMAIN contracts, amount \in (-1)..(MaxAmount + 1) \cup {NaN} :
        RecordPayment(k, amount)

SpecPay == InitPay /\ [][NextPay]_vars

-----------------------------------------------------------------------------
(* SpecPerm: the permission predicates on every actor and target. *)

MaxUserId == 3

Actors == [id : 1..MaxUserId, role : Roles \cup {"guest"}]

Probes ==
    [done : {TRUE},
     user : Actors,
     client : [commercial_id : 1..MaxUserId],
     contract : [commercial_id : 1..MaxUserId],
     event : [support_id : {None} \cup 1..MaxUserId]]

InitPerm ==
    /\ users = Staff
    /\ clients = << >>
    /\ contracts = << >>
    /\ events = << >>
    /\ sessionFile = NoFile
    /\ now = 0
    /\ last = Call("init", None, "None")
    /\ probe \in Probes
    /\ verdict = NotEvaluated
    /\ procs = << >>

NextPerm == Evaluate

SpecPerm == InitPerm /\ [][NextPerm]_vars


-----------------------------------------------------------------------------
(* Claims *)

\* C1 (SpecPay): record_payment(amount) with 0 < amount <= remaining_amount
\* returns True and lowers remaining_amount by exactly amount; with amount <= 0
\* or amount > remaining_amount it returns False and changes no contract.  In
\* both cases every other contract is left as it was.
C1_RecordPaymentContract ==
    [][last'.op = "record_payment" =>
         LET k == last'.id
             a == last'.amount
             r == contracts[k].remaining_amount
         IN  /\ (FloatGt(a, 0) /\ FloatLe(a, r)) =>
                   /\ last'.out = "True"
                   /\ contracts'[k].remaining_amount = r - a
                   /\ contracts' = [contracts EXCEPT ![k].remaining_amount = r - a]
             /\ (FloatLe(a, 0) \/ FloatGt(a, r)) =>
                   /\ last'.out = "False"
                   /\ contracts' = contracts]_vars

\* A payment of part of what remained was accepted.
C1_Witness ==
    /\ last.op = "record_payment"
    /\ last.out = "True"
    /\ FloatGt(last.amount, 0)
    /\ FloatGt(contracts[last.id].remaining_amount, 0)

\* C2 (Spec): no command changes the store while get_current_user would
\* return none.
C2_MutationNeedsActor == [][store' # store => CurrentUser # None]_vars

\* C3 (Spec): while the current actor is a commercial, no client update /
\* delete and no contract update / delete changes a client or contract whose
\* commercial is another actor.
C3_CommercialOwnRecordsOnly ==
    [][(/\ CurrentUser # None
        /\ users[CurrentUser].role = COMMERCIAL
        /\ last'.op \in {"client_update", "client_delete", "contract_update", "contract_delete"})
       => /\ \A c \in DOMAIN clients :
                clients[c].commercial_id # CurrentUser
                   => c \in DOMAIN clients' /\ clients'[c] = clients[c]
          /\ \A k \in DOMAIN contracts :
                contracts[k].commercial_id # CurrentUser
                   => k \in DOMAIN contracts' /\ contracts'[k] = contracts[k]]_vars


\* No contract references a missing client and no event a missing contract or client.
NoDanglingReference ==
    /\ \A k \in DOMAIN contracts : contracts[k].client_id \in DOMAIN clients
    /\ \A e \in DOMAIN events :
          /\ events[e].contract_id \in DOMAIN contracts
          /\ events[e].client_id \in DOMAIN clients

\* The rows of table t whose keys are not in gone are in t' as they were.
Kept(t, tNext, gone) ==
    /\ DOMAIN tNext = DOMAIN t \ gone
    /\ \A k \in DOMAIN tNext : tNext[k] = t[k]

\* C4 (SpecCascade): after a successful client delete no contract references
\* the client and no event references it or one of its former contracts; after
\* a successful contract delete no event references the contract; every other
\* client, contract and event is unchanged, and no reference dangles.
C4_CascadeComplete ==
    /\ [](NoDanglingReference)
    /\ [][/\ (last'.op = "client_delete" /\ last'.out = "ok") =>
               LET c == last'.id
                   ks == {k \in DOMAIN contracts : contracts[k].client_id = c}
                   es == {e \in DOMAIN events :
                            events[e].client_id = c \/ events[e].contract_id \in ks}
               IN  /\ c \in DOMAIN clients
                   /\ Kept(clients, clients', {c})
                   /\ Kept(contracts, contracts', ks)
                   /\ Kept(events, events', es)
          /\ (last'.op = "contract_delete" /\ last'.out = "ok") =>
               LET k == last'.id
                   es == {e \in DOMAIN events : events[e].contract_id = k}
               IN  /\ k \in DOMAIN contracts
                   /\ clients' = clients
                   /\ Kept(contracts, contracts', {k})
                   /\ Kept(events, events', es)]_vars

\* A client delete took a contract and an event with it and left another
\* client with its contract and event in place.
C4_Witness ==
    /\ last.op = "client_delete"
    /\ last.out = "ok"
    /\ last.removed = <<1, 1>>
    /\ Cardinality(DOMAIN clients) = 1
    /\ Cardinality(DOMAIN contracts) = 1
    /\ Cardinality(DOMAIN events) = 1

\* C5 (SpecEvents): event create against an unsigned contract fails and
\* creates no event, whatever the dates and the attendee count; an event
\* appears only through an event create whose contract exists and is signed.
C5_EventNeedsSignedContract ==
    [][/\ last'.op = "event_create" =>
            LET k == last'.contract_id
            IN  /\ (k \in DOMAIN contracts /\ ~contracts[k].is_signed) =>
                      last'.out = "error" /\ events' = events
                /\ last'.out = "ok" =>
                      /\ k \in DOMAIN contracts
                      /\ contracts[k].is_signed
                      /\ last'.id \notin DOMAIN events
                      /\ DOMAIN events' = DOMAIN events \cup {last'.id}
                      /\ events'[last'.id].contract_id = k
                      /\ \A e \in DOMAIN events : events'[e] = events[e]
                /\ last'.out # "ok" => events' = events
       /\ (DOMAIN events' \ DOMAIN events # {}) =>
            last'.op = "event_create" /\ last'.out = "ok"]_vars

\* An event create with well-ordered dates was refused because its contract is
\* not signed, while another contract carries an event.
C5_Witness ==
    /\ last.op = "event_create"
    /\ last.out = "error"
    /\ last.contract_id \in DOMAIN contracts
    /\ ~contracts[last.contract_id].is_signed
    /\ events # << >>


\* C6 (SpecAuth): a login at instant T writes a record that expires at
\* T + 12 hours; while the record's user exists, get_current_user returns that
\* user at every instant up to and including the expiry and leaves the record
\* in place; at every later instant it returns None and removes the record,
\* and an absent record stays absent until a login.
C6_SessionValidTwelveHours ==
    [][/\ (last'.op = "login" /\ last'.out = "User") =>
            /\ sessionFile'.kind = "object"
            /\ sessionFile'.user_id = last'.id
            /\ sessionFile'.expires_at = now + 12 * 60
       /\ (last'.op = "get_current_user" /\ sessionFile.kind = "object") =>
            IF now > sessionFile.expires_at
            THEN last'.out = "None" /\ sessionFile' = [kind |-> "absent"]
            ELSE /\ sessionFile' = sessionFile
                 /\ sessionFile.user_id \in DOMAIN users =>
                       last'.out = "User" /\ last'.id = sessionFile.user_id
       /\ (sessionFile.kind = "absent" /\ last'.op # "login") =>
            /\ sessionFile' = sessionFile
            /\ last'.op = "get_current_user" => last'.out = "None"]_vars

\* One minute past twelve hours after a login at instant 0, get_current_user
\* returned None and removed the record of a user who still exists.
C6_Witness ==
    /\ last.op = "get_current_user"
    /\ last.out = "None"
    /\ last.logged_out
    /\ sessionFile.kind = "absent"
    /\ now = 12 * 60 + 1
    /\ DOMAIN users = DOMAIN Staff

\* C7 (SpecPerm): can_manage_client holds exactly for an admin, a gestion user
\* and the commercial the client belongs to; can_manage_event exactly for an
\* admin, a gestion user, the commercial of the event's contract and the
\* support the event is assigned to.
C7_UserSidePermissions ==
    verdict.done =>
        LET u == probe.user
        IN  /\ verdict.can_manage_client <=>
                  \/ u.role \in {"admin", "gestion"}
                  \/ u.role = "commercial" /\ probe.client.commercial_id = u.id
            /\ verdict.can_manage_event <=>
                  \/ u.role \in {"admin", "gestion"}
                  \/ u.role = "commercial" /\ probe.contract.commercial_id = u.id
                  \/ u.role = "support" /\ probe.event.support_id = u.id

\* A support user was denied a client and allowed the event assigned to them.
C7_Witness ==
    /\ verdict.done
    /\ probe.user.role = "support"
    /\ probe.event.support_id = probe.user.id
    /\ verdict.can_manage_event
    /\ ~verdict.can_manage_client

\* C8 (SpecPerm): the can_be_edited_by predicates of Client, Contract and Event
\* allow an admin and a gestion user on every row, a commercial exactly on
\* their own client, contract and event's contract, and a support on no client
\* or contract and exactly on the events assigned to them.
C8_EntitySidePermissions ==
    verdict.done =>
        LET u == probe.user
        IN  /\ verdict.client_editable <=>
                  \/ u.role \in {"admin", "gestion"}
                  \/ u.role = "commercial" /\ probe.client.commercial_id = u.id
            /\ verdict.contract_editable <=>
                  \/ u.role \in {"admin", "gestion"}
                  \/ u.role = "commercial" /\ probe.contract.commercial_id = u.id
            /\ verdict.event_editable <=>
                  \/ u.role \in {"admin", "gestion"}
                  \/ u.role = "commercial" /\ probe.contract.commercial_id = u.id
                  \/ u.role = "support" /\ probe.event.support_id = u.id

\* C9 (SpecClients): no two clients ever share an email, and a client create
\* with the email of an existing client fails and leaves every client as it was.
C9_ClientEmailUnique ==
    /\ [](\A c1, c2 \in DOMAIN clients :
            clients[c1].email = clients[c2].email => c1 = c2)
    /\ [][(/\ last'.op = "client_create"
           /\ \E c \in DOMAIN clients : clients[c].email = last'.email) =>
              /\ last'.out = "error"
              /\ clients' = clients]_vars

\* A client create naming an existing commercial was refused because the one
\* existing client holds the email.
C9_Witness ==
    /\ last.op = "client_create"
    /\ last.out = "error"
    /\ last.commercial_id \in DOMAIN users
    /\ users[last.commercial_id].role = "commercial"
    /\ Cardinality(DOMAIN clients) = 1
    /\ \E c \in DOMAIN clients : clients[c].email = last.email

\* C10 (SpecPay): under record_payment remaining_amount stays within
\* 0..total_amount and never increases, is_fully_paid holds exactly at 0, and
\* at 0 every record_payment, whatever the amount, returns False and leaves
\* it at 0.
C10_PaymentAccounting ==
    /\ [](\A k \in DOMAIN contracts :
            /\ FloatLe(0, contracts[k].remaining_amount)
            /\ FloatLe(contracts[k].remaining_amount, contracts[k].total_amount)
            /\ IsFullyPaid(contracts[k]) <=> contracts[k].remaining_amount = 0)
    /\ [][/\ \A k \in DOMAIN contracts :
                /\ k \in DOMAIN contracts'
                /\ FloatLe(contracts'[k].remaining_amount, contracts[k].remaining_amount)
                /\ contracts'[k].total_amount = contracts[k].total_amount
          /\ (/\ last'.op = "record_payment"
              /\ contracts[last'.id].remaining_amount = 0) =>
                /\ last'.out = "False"
                /\ contracts'[last'.id].remaining_amount = 0]_vars


\* C11 (SpecSession): a successful login replaces whatever the session file
\* held (nothing, a record, an expired or an unreadable one) by the record of
\* the user logged in: their user_id, username and role, and an expires_at 12
\* hours after the login; a get_current_user that follows returns that user.
C11_LoginWritesRecord ==
    [][/\ (last'.op = "login" /\ last'.out = "User") =>
            /\ last'.id \in DOMAIN users
            /\ users[last'.id].username = last'.username
            /\ sessionFile' = [kind |-> "object",
                               user_id |-> last'.id,
                               username |-> last'.username,
                               role |-> users[last'.id].role,
                               expires_at |-> now + 12 * 60]
       /\ (last.op = "login" /\ last.out = "User" /\ last'.op = "get_current_user") =>
            /\ last'.out = "User"
            /\ last'.id = last.id
            /\ sessionFile' = sessionFile]_vars

\* A login succeeded over a file that was not JSON.
C11_Witness ==
    /\ last.op = "login"
    /\ last.out = "User"
    /\ last.replaced = "not_json"
    /\ sessionFile.kind = "object"
    /\ sessionFile.user_id = last.id


\* C12 (SpecSession): login raises AuthenticationError when no user has the
\* username, when the user has no verifier, or when the secret does not verify
\* against it; a failed login leaves the session file and the store as they were.
C12_FailedLoginChangesNothing ==
    [][last'.op = "login" =>
         LET named == {i \in DOMAIN users : users[i].username = last'.username}
             verifies(i) == /\ users[i].password_hash # << >>
                            /\ users[i].password_hash = Hash(last'.password)
         IN  /\ (named = {} \/ \A i \in named : ~verifies(i)) =>
                   last'.out = "AuthenticationError"
             /\ last'.out = "AuthenticationError" =>
                   /\ sessionFile' = sessionFile
                   /\ store' = store
             /\ last'.out \in {"User", "AuthenticationError"}]_vars

\* The login of an account without a verifier failed and left the record of
\* the actor logged in before in place.
C12_Witness ==
    /\ last.op = "login"
    /\ last.out = "AuthenticationError"
    /\ last.username = "nopass"
    /\ last.replaced = "object"
    /\ sessionFile.kind = "object"

\* C13 (SpecSession): logout removes the session file when there is one and
\* returns True exactly then; with no file it returns False and changes
\* nothing; after any logout there is no file.
C13_LogoutIdempotent ==
    /\ [](last.op = "logout" => sessionFile = [kind |-> "absent"])
    /\ [][last'.op = "logout" =>
            /\ last'.out = (IF sessionFile.kind # "absent" THEN "True" ELSE "False")
            /\ sessionFile' = [kind |-> "absent"]
            /\ sessionFile.kind = "absent" => sessionFile' = sessionFile
            /\ store' = store /\ now' = now]_vars

\* A logout found no file, returned False and left none.
C13_Witness ==
    /\ last.op = "logout"
    /\ last.out = "False"
    /\ sessionFile.kind = "absent"


\* C14 (SpecSession): on a session file that is not a readable record (not
\* JSON, JSON that is not an object, an object without expires_at or without
\* user_id, an ill-formed timestamp) get_current_user returns None, removes
\* the file and lets no exception out.
C14_UnreadableFileIsAbsent ==
    [][(/\ last'.op = "get_current_user"
        /\ sessionFile.kind \in {"not_json", "not_object", "no_expires_at",
                                 "bad_timestamp", "no_user_id"}) =>
          /\ last'.out = "None"
          /\ sessionFile' = [kind |-> "absent"]]_vars

\* C15 (SpecSession): a function wrapped by require_auth(role) runs exactly
\* when get_current_user returns a user and role is None or is that user's
\* role; one wrapped by check_permission(p) runs exactly when
\* get_current_user returns a user and p holds of them; otherwise the wrapper
\* returns None, raises nothing and does not run the function.
C15_GuardsDenyQuietly ==
    [][/\ last'.op = "require_auth" =>
            /\ last'.ran <=>
                  /\ CurrentUser # None
                  /\ \/ last'.role = << >>
                     \/ users[CurrentUser].role = last'.role[1]
            /\ ~last'.ran => last'.out = "None"
       /\ last'.op = "check_permission" =>
            /\ last'.ran <=>
                  /\ CurrentUser # None
                  /\ Permits(last'.check, users[CurrentUser])
            /\ ~last'.ran => last'.out = "None"]_vars


\* C16 (SpecContracts): every stored contract has total_amount > 0 and
\* 0 <= remaining_amount <= total_amount.
C16_AmountsInRange ==
    \A k \in DOMAIN contracts :
        /\ FloatGt(contracts[k].total_amount, 0)
        /\ FloatLe(0, contracts[k].remaining_amount)
        /\ FloatLe(contracts[k].remaining_amount, contracts[k].total_amount)

\* C17 (SpecContracts): a contract is created with remaining_amount equal to
\* total_amount; afterwards remaining_amount changes only in a successful
\* record_payment, and then it decreases.
C17_RemainingOnlyPaidDown ==
    [][\A k \in DOMAIN contracts' :
          IF k \notin DOMAIN contracts
          THEN contracts'[k].remaining_amount = contracts'[k].total_amount
          ELSE contracts'[k].remaining_amount # contracts[k].remaining_amount =>
                  /\ last'.op = "record_payment"
                  /\ last'.out = "True"
                  /\ last'.id = k
                  /\ FloatGt(contracts[k].remaining_amount,
                             contracts'[k].remaining_amount)]_vars


\* C18 (SpecPay): record_payment, accepted or refused, leaves is_paid,
\* is_signed and total_amount of every contract as they were; a contract paid
\* down to 0 keeps its is_paid.
C18_PaymentLeavesFlags ==
    [][last'.op = "record_payment" =>
         /\ DOMAIN contracts' = DOMAIN contracts
         /\ \A k \in DOMAIN contracts :
               /\ contracts'[k].is_paid = contracts[k].is_paid
               /\ contracts'[k].is_signed = contracts[k].is_signed
               /\ contracts'[k].total_amount = contracts[k].total_amount]_vars

\* A payment brought a contract to 0 and the contract is still not marked paid.
C18_Witness ==
    /\ last.op = "record_payment"
    /\ last.out = "True"
    /\ contracts[last.id].remaining_amount = 0
    /\ ~contracts[last.id].is_paid

\* C19 (SpecContracts): contract create succeeds only with total_amount > 0
\* and an existing client, and then adds one contract with remaining_amount
\* equal to total_amount and the commercial of the client; with
\* total_amount <= 0 or a missing client it creates nothing.
C19_ContractCreate ==
    [][last'.op = "contract_create" =>
         LET c == last'.client_id
             t == last'.total_amount
             k == last'.id
         IN  /\ last'.out = "ok" =>
                   /\ FloatGt(t, 0)
                   /\ c \in DOMAIN clients
                   /\ k \notin DOMAIN contracts
                   /\ DOMAIN contracts' = DOMAIN contracts \cup {k}
                   /\ \A j \in DOMAIN contracts : contracts'[j] = contracts[j]
                   /\ contracts'[k].client_id = c
                   /\ contracts'[k].total_amount = t
                   /\ contracts'[k].remaining_amount = t
                   /\ contracts'[k].commercial_id = clients[c].commercial_id
             /\ last'.out # "ok" => contracts' = contracts
             /\ (FloatLe(t, 0) \/ c \notin DOMAIN clients) => last'.out # "ok"]_vars

\* A contract was created for the client of the second commercial.
C19_Witness ==
    /\ last.op = "contract_create"
    /\ last.out = "ok"
    /\ last.client_id = 2
    /\ contracts[last.id].commercial_id = 3
    /\ contracts[last.id].remaining_amount = last.total_amount

\* C20 (SpecContracts): each contract's commercial_id is the commercial_id of
\* its client.
C20_CommercialFollowsClient ==
    \A k \in DOMAIN contracts :
        /\ contracts[k].client_id \in DOMAIN clients
        /\ contracts[k].commercial_id = clients[contracts[k].client_id].commercial_id

\* Contracts of both commercials exist after a contract update went through.
C20_Witness ==
    /\ last.op = "contract_update"
    /\ last.out = "ok"
    /\ \E j, k \in DOMAIN contracts : contracts[j].commercial_id # contracts[k].commercial_id

-----------------------------------------------------------------------------
\* C21: client create stores a client only when --commercial-id is the id of
\* an existing user whose role is "commercial" at that moment; for a missing
\* user or a user of another role the command fails and the clients table is
\* unchanged.
C21_ClientNeedsCommercial ==
    [][last'.op = "client_create" =>
         /\ last'.out = "ok" =>
               /\ last'.commercial_id \in DOMAIN users
               /\ users[last'.commercial_id].role = "commercial"
               /\ DOMAIN clients' = DOMAIN clients \cup {last'.id}
               /\ last'.id \notin DOMAIN clients
               /\ clients'[last'.id].commercial_id = last'.commercial_id
         /\ (\/ last'.commercial_id \notin DOMAIN users
             \/ users[last'.commercial_id].role # "commercial") =>
               /\ last'.out = "error"
               /\ clients' = clients
         /\ last'.out # "ok" => clients' = clients]_vars

\* A create was refused for a user that exists and used to be a commercial,
\* while another client created earlier is still stored.
C21_Witness ==
    /\ last.op = "client_create"
    /\ last.out = "error"
    /\ last.commercial_id \in DOMAIN users
    /\ users[last.commercial_id].role = "support"
    /\ last.commercial_id = 3
    /\ ClientsWithEmail(last.email) = {}
    /\ clients # << >>

-----------------------------------------------------------------------------
\* C22: event assign_support sets the event's support only when the event
\* exists and --support-id is the id of an existing user whose role is
\* "support" at that moment; otherwise the command fails and every event keeps
\* its support_id.
C22_SupportNeedsSupportRole ==
    [][last'.op = "assign_support" =>
         /\ last'.out = "ok" =>
               /\ last'.event_id \in DOMAIN events
               /\ last'.support_id \in DOMAIN users
               /\ users[last'.support_id].role = "support"
               /\ events' = [events EXCEPT ![last'.event_id].support_id = last'.support_id]
         /\ (\/ last'.event_id \notin DOMAIN events
             \/ last'.support_id \notin DOMAIN users
             \/ users[last'.support_id].role # "support") =>
               /\ last'.out = "error"
               /\ events' = events
         /\ last'.out # "ok" => events' = events]_vars

\* An assignment to an existing event was refused for an existing user that
\* is not a support, and the event keeps the support it was given before.
C22_Witness ==
    /\ last.op = "assign_support"
    /\ last.out = "error"
    /\ last.event_id \in DOMAIN events
    /\ last.support_id \in DOMAIN users
    /\ users[last.support_id].role = "commercial"
    /\ events[last.event_id].support_id \notin {None, last.support_id}

-----------------------------------------------------------------------------
\* C23: in every reachable state every stored event ends after it starts:
\* event create rejects an end that is not after the start, and no sequence of
\* event update commands leaves an event whose end is not after its start.
C23_EndAfterStart ==
    \A e \in DOMAIN events : events[e].end_date > events[e].start_date

-----------------------------------------------------------------------------
-----------------------------------------------------------------------------
\* C25: client delete is all or nothing: either the client, every contract
\* of the client and every event of the client or of those contracts are
\* removed together, or the command failed and the clients, contracts and
\* events tables are what they were.
C25_ClientDeleteAtomic ==
    [][last'.op = "client_delete" =>
         LET c == last'.id
             ks == {k \in DOMAIN contracts : contracts[k].client_id = c}
             es == {e \in DOMAIN events :
                      events[e].client_id = c \/ events[e].contract_id \in ks}
         IN  \/ /\ last'.out = "ok"
                /\ c \in DOMAIN clients
                /\ c \notin DOMAIN clients'
                /\ ks \cap DOMAIN contracts' = {}
                /\ es \cap DOMAIN events' = {}
             \/ /\ last'.out # "ok"
                /\ clients' = clients
                /\ contracts' = contracts
                /\ events' = events]_vars

\* The delete of a client that has a contract and an event failed at commit,
\* and the three rows are still stored.
C25_Witness ==
    /\ last.op = "client_delete"
    /\ last.out = "rollback"
    /\ last.target \in DOMAIN clients
    /\ ContractsOfClient(last.target) # {}
    /\ EventsOfContracts(ContractsOfClient(last.target)) # {}

-----------------------------------------------------------------------------
\* C26: user delete removes no client, contract or event, whether or not the
\* user is the commercial of clients or contracts or the support of events:
\* the three tables hold the same rows, and so the same number of rows,
\* after the command as before it.
C26_UserDeleteKeepsRows ==
    [][last'.op = "user_delete" =>
         /\ DOMAIN clients' = DOMAIN clients
         /\ DOMAIN contracts' = DOMAIN contracts
         /\ DOMAIN events' = DOMAIN events
         /\ Cardinality(DOMAIN clients') = Cardinality(DOMAIN clients)
         /\ Cardinality(DOMAIN contracts') = Cardinality(DOMAIN contracts)
         /\ Cardinality(DOMAIN events') = Cardinality(DOMAIN events)]_vars

\* The support of two events was deleted, and both events are still stored.
C26_Witness ==
    /\ last.op = "user_delete"
    /\ last.out = "ok"
    /\ last.id \notin DOMAIN users
    /\ last.managed = <<0, 0, 2>>
    /\ Cardinality(DOMAIN events) = 2

-----------------------------------------------------------------------------
\* The calls of op among the processes.
Calls(op) == {p \in DOMAIN procs : procs[p].op = op}

\* No call of op has taken a step.
NotStarted(op) == \A p \in Calls(op) : procs[p].pc \in {"start", "exists"} /\ procs[p].data = NoFile

\* The file holds exactly the record login process p computed.
HoldsRecordOf(p) ==
    /\ sessionFile # NoFile
    /\ sessionFile.kind = "object"
    /\ sessionFile.user_id = procs[p].data.user_id
    /\ sessionFile.username = procs[p].data.username
    /\ sessionFile.role = procs[p].data.role
    /\ sessionFile.expires_at = procs[p].data.expires_at

\* C27: when two logins race and nothing else touches the file, the file
\* afterwards holds exactly the complete record of the login that wrote
\* last, never a mixture and never unreadable text, and get_current_user
\* returns that login's user.
C27_LastWriterWins ==
    (/\ \A p \in Calls("login") : procs[p].pc = "done"
     /\ NotStarted("get_current_user")
     /\ NotStarted("logout")
     /\ last.op = "login_write") =>
        /\ HoldsRecordOf(last.id)
        /\ Lookup(sessionFile, now).out = "User"
        /\ Lookup(sessionFile, now).id = procs[last.id].data.user_id

\* C28: a get_current_user that runs concurrently with a login never removes
\* the record that login has written: no step of get_current_user removes or
\* changes a file that holds the complete, unexpired record of a finished
\* login.
C28_LookupSparesNewSession ==
    [][(/\ last'.proc = "get_current_user"
        /\ \E q \in Calls("login") : procs[q].pc = "done" /\ HoldsRecordOf(q)
        /\ ~Expired(sessionFile, now)) =>
          sessionFile' = sessionFile]_vars

\* C29: get_current_user surfaces no error under any interleaving with a
\* concurrent logout: whatever the logout does between its steps, it returns
\* a user or None.
C29_LookupNeverRaises ==
    NotStarted("login") =>
        \A p \in Calls("get_current_user") : procs[p].out \in {"none", "None", "User"}

-----------------------------------------------------------------------------
\* C30: contract update --is-signed false on a signed contract succeeds and
\* leaves the contract unsigned, and no contract update, that one included,
\* deletes or changes an event: the events created while the contract was
\* signed stay as they were.
C30_UnsignKeepsEvents ==
    [][last'.op = "contract_update" =>
         /\ events' = events
         /\ (/\ last'.contract_id \in DOMAIN contracts
             /\ contracts[last'.contract_id].is_signed
             /\ last'.is_signed = <<FALSE>>) =>
               /\ last'.out = "ok"
               /\ ~contracts'[last'.contract_id].is_signed
               /\ DOMAIN contracts' = DOMAIN contracts]_vars

\* A signed contract with an event was unsigned, and the event is still
\* stored under it.
C30_Witness ==
    /\ last.op = "contract_update"
    /\ last.out = "ok"
    /\ last.was_signed
    /\ last.is_signed = <<FALSE>>
    /\ ~contracts[last.id].is_signed
    /\ EventsOfContracts({last.id}) # {}

-----------------------------------------------------------------------------
\* C31: the guards judge the current actor by the role stored for that user
\* when they look it up, not by the role its session record carries: a
\* function behind require_auth(role) runs exactly when the stored role is
\* that role, one behind an admin-only permission check exactly when the
\* stored role is admin, also after user update has changed the role and
\* without a new login.
C31_RoleReadAtLookup ==
    [][/\ (last'.op = "require_auth" /\ last'.id # None /\ Given(last'.role)) =>
             (last'.ran <=> users[last'.id].role = Value(last'.role))
       /\ (last'.op = "check_permission" /\ last'.id # None) =>
             (last'.ran <=> users[last'.id].role = ADMIN)]_vars

\* A user who logged in as support and was then made admin passed the admin
\* guard on the session that still says support.
C31_Witness ==
    /\ last.op = "require_auth"
    /\ last.ran
    /\ last.role = <<ADMIN>>
    /\ sessionFile.kind = "object"
    /\ sessionFile.role = SUPPORT
    /\ sessionFile.username = users[last.id].username
    /\ users[last.id].role = ADMIN

\* The session file holds an unexpired record and no stored user has the id
\* and the username it names: the user that logged in has been deleted.
ActorDeleted ==
    /\ sessionFile.kind = "object"
    /\ ~Expired(sessionFile, now)
    /\ \/ sessionFile.user_id \notin DOMAIN users
       \/ users[sessionFile.user_id].username # sessionFile.username

\* C32: a session never outlives its actor: once the user an unexpired
\* session record names has been deleted, get_current_user returns None and
\* both guards deny, and the record is left in place.
C32_SessionDiesWithActor ==
    [][(ActorDeleted /\ last'.op \in {"get_current_user", "require_auth", "check_permission"}) =>
          /\ last'.out = "None"
          /\ last'.id = None
          /\ last'.op # "get_current_user" => ~last'.ran
          /\ sessionFile' = sessionFile]_vars

-----------------------------------------------------------------------------
\* C33: in every state the commands reach, every event belongs to a stored
\* contract and its client_id is the client_id of that contract.
C33_EventClientIsContractClient ==
    \A e \in DOMAIN events :
        /\ events[e].contract_id \in DOMAIN contracts
        /\ events[e].client_id = contracts[events[e].contract_id].client_id

\* Two events of two clients are stored, the second on the second contract,
\* and an event update has just rewritten one of them.
C33_Witness ==
    /\ last.op = "event_update"
    /\ last.out = "ok"
    /\ DOMAIN events = {1, 2}
    /\ events[1].client_id # events[2].client_id
    /\ events[2].contract_id = 2
    /\ contracts[2].client_id = 2
    /\ ~contracts[2].is_signed

-----------------------------------------------------------------------------
\* C34: a command that fails leaves the whole store unchanged: an update,
\* delete or assignment on an id that does not exist changes no table, and
\* an event update given a start date it can parse and an end date it cannot
\* fails and stores neither.
C34_FailureChangesNothing ==
    [][/\ last'.out # "ok" => store' = store
       /\ (/\ last'.op = "event_update"
           /\ last'.event_id \in DOMAIN events
           /\ Given(last'.dates[2])
           /\ ~ValidDate(Value(last'.dates[2]))) =>
             /\ last'.out = "error"
             /\ events' = events]_vars

\* An event update with a new start at 12:00 and an end strptime rejects
\* failed, and the event still starts and ends when it did and has the
\* attendees it had.
C34_Witness ==
    /\ last.op = "event_update"
    /\ last.out = "error"
    /\ last.dates = << <<Noon>>, <<BadDate>> >>
    /\ last.event_id \in DOMAIN events
    /\ events[last.event_id].start_date = ParseDate(Morning)
    /\ events[last.event_id].attendees = 50

-----------------------------------------------------------------------------
\* C35: in every reachable state no two users have the same username or the
\* same email, so a username names at most one user; a user create or user
\* update that would break this fails and leaves the users table unchanged.
C35_UsersUnique ==
    /\ [](\A i \in DOMAIN users, j \in DOMAIN users :
             i # j => /\ users[i].username # users[j].username
                      /\ users[i].email # users[j].email)
    /\ [](\A i \in DOMAIN users : UserByName(users[i].username) = {i})
    /\ [][(last'.op \in {"user_create", "user_update"} /\ last'.out # "ok") =>
             users' = users]_vars

\* A user update asked for an address another user has, failed, and both
\* users keep their own.
C35_Witness ==
    /\ last.op = "user_update"
    /\ last.out = "ClickException"
    /\ last.user_id \in DOMAIN users
    /\ Truthy(last.email)
    /\ users[last.user_id].email # Value(last.email)
    /\ UsersWithEmail(Value(last.email)) # {}
    /\ ~Truthy(last.username)

-----------------------------------------------------------------------------
\* The place of a status in the order upcoming, ongoing, past.
Rank(status) ==
    CASE status = "À venir" -> 0
      [] status = "En cours" -> 1
      [] status = "Terminé" -> 2

\* C36: for an event whose stored interval does not change and starts before
\* it ends, the status never moves back as the clock advances: upcoming, then
\* ongoing, then past; and once the clock has passed the end the status is
\* past and stays past.
C36_StatusMovesForward ==
    [][\A e \in DOMAIN events :
          (/\ events' = events
           /\ events[e].start_date < events[e].end_date
           /\ now' >= now) =>
             /\ Rank(Status(events[e], now')) >= Rank(Status(events[e], now))
             /\ now > events[e].end_date =>
                   /\ Status(events[e], now) = "Terminé"
                   /\ Status(events[e], now') = "Terminé"]_vars

\* The clock has just advanced from inside the interval of an event of
\* positive length to past its end, and the event now reads as past.
C36_Witness ==
    /\ last.op = "advance"
    /\ events[1].start_date < events[1].end_date
    /\ now > events[1].end_date
    /\ Status(events[1], now) = "Terminé"
    /\ Status(events[1], now - 1) = "En cours"

====
